---------------------------- MODULE Spec2Model ----------------------------
(***************************************************************************)
(* Archive synchronisation pipeline of routeviews/google-cloud-storage:    *)
(*   cmd/archive_upload_mass_upload/mass_upload.go  (walker + engine)      *)
(*   cmd/archive_upload_server/server.go            (upload service)       *)
(*                                                                         *)
(* Strings are sequences of one-character strings, so that HasPrefix,      *)
(* HasSuffix, TrimLeft and the hex encoding are computed, not assumed.     *)
(***************************************************************************)
EXTENDS Integers, Sequences, FiniteSets, TLC

(***************************************************************************)
(* Program constants and model bounds                                      *)
(***************************************************************************)
\* mass_upload.go:42  "Max ftp errors before exiting the process."
maxFTPErrs == 50

\* The capacity of c.ch: make(chan *evalFile) gives the channel no buffer.
chanCap == 0

\* Environment faults (other than RETR failures) injected per run.
MaxFaults == 2

\* Number of process runs (a restart re-reads the live state).
MaxRuns == 2

\* Number of rpcs the service serves at once (concurrent service).
MaxCalls == 2

\* Files of the wide directory: enough to exhaust the error budget and
\* leave one file after the fatal failure.
WideCount == maxFTPErrs + 2

(***************************************************************************)
(* Strings                                                                 *)
(***************************************************************************)
updatesStr == <<"u","p","d","a","t","e","s">>
ribsStr == <<"R","I","B","S">>
slashStr == <<"/">>

\* strings.HasPrefix(s, prefix)
HasPrefix(s, prefix) ==
    /\ Len(s) >= Len(prefix)
    /\ SubSeq(s, 1, Len(prefix)) = prefix

\* strings.HasSuffix(s, suffix)
HasSuffix(s, suffix) ==
    /\ Len(s) >= Len(suffix)
    /\ SubSeq(s, Len(s) - Len(suffix) + 1, Len(s)) = suffix

\* strings.TrimLeft(s, cutset): drops every leading character of the cutset.
RECURSIVE TrimLeft(_, _)
TrimLeft(s, cutset) ==
    IF s # <<>> /\ (\E i \in 1..Len(cutset) : cutset[i] = Head(s))
    THEN TrimLeft(Tail(s), cutset)
    ELSE s

\* strings.Contains over a message kept as a sequence of phrases.
Contains(msg, phrase) == \E i \in 1..Len(msg) : msg[i] = phrase

\* path.Join(dir, name) as the walker of the ftp client builds item paths.
pathJoin(dir, name) ==
    IF dir = slashStr THEN dir \o name ELSE dir \o slashStr \o name

(***************************************************************************)
(* Checksum codec                                                          *)
(***************************************************************************)
HexDigits == <<"0","1","2","3","4","5","6","7","8","9","a","b","c","d","e","f">>

\* hex.EncodeToString(b): two lower-case digits per byte.
hexEncodeToString(b) ==
    [i \in 1..(2 * Len(b)) |->
        IF i % 2 = 1 THEN HexDigits[(b[(i + 1) \div 2] \div 16) + 1]
                     ELSE HexDigits[(b[i \div 2] % 16) + 1]]

\* fmt.Sprintf("%x", sum): the same lower-case encoding of the 16 bytes.
sprintfHex(b) ==
    [i \in 1..(2 * Len(b)) |->
        IF i % 2 = 1 THEN HexDigits[(b[(i + 1) \div 2] \div 16) + 1]
                     ELSE HexDigits[(b[i \div 2] % 16) + 1]]

\* md5.Sum(content): the real MD5 digests of the byte strings of the model.
md5Sum(content) ==
    CASE content = <<>>     -> <<212,29,140,217,143,0,178,4,233,128,9,152,236,248,66,126>>
      [] content = <<1>>    -> <<85,165,64,8,173,27,165,137,170,33,13,38,41,193,223,65>>
      [] content = <<1, 2>> -> <<12,185,136,208,66,167,242,141,213,254,43,85,179,245,172,122>>
      [] content = <<3>>    -> <<134,102,104,53,6,170,205,144,11,189,90,116,172,78,223,104>>
      [] content = <<4>>    -> <<236,127,126,123,180,55,66,206,134,129,69,247,29,55,181,60>>
      [] content = <<9>>    -> <<94,115,42,24,120,190,35,66,219,254,255,95,227,202,90,163>>
      [] content = <<7>>    -> <<137,231,78,100,11,140,70,37,122,41,222,6,22,121,77,93>>

(***************************************************************************)
(* Remote namespace (the ftp site): the inputs of a run                    *)
(***************************************************************************)
EntryTypeFile == "EntryTypeFile"
EntryTypeFolder == "EntryTypeFolder"
EntryTypeLink == "EntryTypeLink"

Entry(name, type) == [Name |-> name, Type |-> type]

Digit(n) == HexDigits[n + 1]

\* A small deep site: eligible files at three depths, a RIBS directory
\* holding an eligible file, a directory and a link named like update
\* files, a name that is a proper prefix of "updates", an empty file.
DeepList(path) ==
    CASE path = <<"/">> ->
            << Entry(updatesStr \o <<".","e">>, EntryTypeFile),
               Entry(<<"o","t","h","e","r",".","t","x","t">>, EntryTypeFile),
               Entry(<<"a">>, EntryTypeFolder),
               Entry(updatesStr \o <<".","0">>, EntryTypeFile) >>
      [] path = <<"/","a">> ->
            << Entry(updatesStr \o <<".","d">>, EntryTypeFolder),
               Entry(ribsStr, EntryTypeFolder),
               Entry(<<"u","p","d">>, EntryTypeFile),
               Entry(updatesStr \o <<".","l">>, EntryTypeLink),
               Entry(updatesStr \o <<".","1">>, EntryTypeFile) >>
      [] path = <<"/","a","/">> \o ribsStr ->
            << Entry(<<"f","u","l","l",".","1">>, EntryTypeFile),
               Entry(updatesStr \o <<".","2">>, EntryTypeFile) >>
      [] OTHER -> <<>>

DeepContent(path) ==
    CASE path = <<"/">> \o updatesStr \o <<".","0">> -> <<1, 2>>
      [] path = <<"/","a","/">> \o updatesStr \o <<".","1">> -> <<3>>
      [] path = <<"/","a","/">> \o ribsStr \o <<"/">> \o updatesStr \o <<".","2">> -> <<4>>
      [] path = <<"/">> \o updatesStr \o <<".","e">> -> <<>>
      [] OTHER -> <<9>>

\* A wide site: one directory of WideCount update files.
WideName(i) == updatesStr \o <<".", Digit(i \div 10), Digit(i % 10)>>

WideList(path) ==
    IF path = <<"/">>
    THEN [i \in 1..WideCount |-> Entry(WideName(i), EntryTypeFile)]
    ELSE <<>>

Sites == {"deep", "wide"}

\* c.fc.List(path) on a site.
ftpList(s, path) == IF s = "deep" THEN DeepList(path) ELSE WideList(path)

\* The bytes c.fc.Retr(path) serves; a relative path is resolved from "/".
ftpContent(s, path) ==
    IF s = "deep" THEN DeepContent(slashStr \o TrimLeft(path, slashStr))
    ELSE <<7>>


(***************************************************************************)
(* Object store (the bucket) and the upload acceptance service             *)
(***************************************************************************)
NoErr == <<>>

\* storage.ErrObjectNotExist
ErrObjectNotExist == <<"storage: ", "object doesn't exist">>
\* any other failure of the object store (unreachable, forbidden, ...)
ErrStoreOther == <<"googleapi: ", "Error 503: backend unavailable">>
\* a failure of the rpc channel itself
ErrTransport == <<"rpc error: ", "code = Unavailable">>

Projects == {"UNKNOWN", "ROUTEVIEWS", "RIPE_RIS", "RPKI_RARC"}
NoMeta == "none"

Object(content, meta) == [content |-> content, meta |-> meta]

\* The store with key k holding object o.
Put(st, k, o) == [x \in (DOMAIN st) \cup {k} |-> IF x = k THEN o ELSE st[x]]

\* fileStore: io.Copy into a new writer; the deferred wc.Close() commits the
\* object and its error is dropped.  f is what the store does to this write.
fileStore(st, fn, b, f) ==
    CASE f = "copyErr" ->
            [store |-> st,
             err |-> <<"failed copying content to destination: ">> \o ErrStoreOther]
      [] f = "closeErr" -> [store |-> st, err |-> NoErr]
      [] OTHER -> [store |-> Put(st, fn, Object(b, NoMeta)), err |-> NoErr]

\* Mutant: a failed update takes the object away again.
setProjectMetaRollback(st, obj, proj, f) ==
    IF obj \notin DOMAIN st
    THEN [store |-> st, err |-> <<"failed to set metadata: ">> \o ErrObjectNotExist]
    ELSE IF f = "updErr"
    THEN [store |-> [x \in (DOMAIN st) \ {obj} |-> st[x]],
          err |-> <<"failed to set metadata: ">> \o ErrStoreOther]
    ELSE [store |-> Put(st, obj, Object(st[obj].content, proj)), err |-> NoErr]

\* setProjectMeta: Update of the metadata of an object that must exist.
setProjectMeta(st, obj, proj, f) ==
    IF obj \notin DOMAIN st
    THEN [store |-> st, err |-> <<"failed to set metadata: ">> \o ErrObjectNotExist]
    ELSE IF f = "updErr"
    THEN [store |-> st, err |-> <<"failed to set metadata: ">> \o ErrStoreOther]
    ELSE [store |-> Put(st, obj, Object(st[obj].content, proj)), err |-> NoErr]

\* handleDataFile: store, then attach the project metadata.
handleDataFile(st, proj, fn, c, fs, fm) ==
    LET w == fileStore(st, fn, c, fs) IN
    IF w.err # NoErr
    THEN [store |-> w.store, resp |-> "FAIL", err |-> w.err]
    ELSE LET m == setProjectMeta(w.store, fn, proj, fm) IN
         IF m.err # NoErr
         THEN [store |-> m.store, resp |-> "FAIL", err |-> m.err]
         ELSE [store |-> m.store, resp |-> "SUCCESS", err |-> NoErr]

\* Mutant: the filename is not looked at.
baseRequirementsNoName(rq) ==
    IF Len(rq.Content) < 1 \/ rq.Project = "UNKNOWN"
    THEN <<"base requirements for FileRequest unmet">>
    ELSE NoErr

\* The two validation steps of FileUpload; NoErr when the request passes.
baseRequirements(rq) ==
    IF Len(rq.Content) < 1 \/ rq.Project = "UNKNOWN" \/ Len(rq.Filename) < 1
    THEN <<"base requirements for FileRequest unmet">>
    ELSE NoErr

\* Mutant: a request that carries no digest is let through.
checksumCheckLax(rq) ==
    IF rq.Md5Sum # <<>> /\ hexEncodeToString(md5Sum(rq.Content)) # rq.Md5Sum
    THEN <<"checksum failure req != calc">>
    ELSE NoErr

checksumCheck(rq) ==
    IF hexEncodeToString(md5Sum(rq.Content)) # rq.Md5Sum
    THEN <<"checksum failure req != calc">>
    ELSE NoErr

\* Mutant: the empty RIPE_RIS case runs into the case that follows it.
storesProjectFallthrough(proj) == proj \in {"ROUTEVIEWS", "RIPE_RIS", "RPKI_RARC"}

\* The cases of the switch of FileUpload that call handleDataFile.
storesProject(proj) == proj \in {"ROUTEVIEWS", "RPKI_RARC"}

\* FileUpload, run to its return: the store it leaves, the response and the
\* error.  A nil response is "nil".
FileUpload(st, rq, fs, fm) ==
    IF baseRequirements(rq) # NoErr
    THEN [store |-> st, resp |-> "nil", err |-> baseRequirements(rq)]
    ELSE IF checksumCheck(rq) # NoErr
    THEN [store |-> st, resp |-> "nil", err |-> checksumCheck(rq)]
    ELSE CASE rq.Project = "ROUTEVIEWS" ->
                 handleDataFile(st, "ROUTEVIEWS", rq.Filename, rq.Content, fs, fm)
           [] rq.Project = "RPKI_RARC" ->
                 handleDataFile(st, "RPKI_RARC", rq.Filename, rq.Content, fs, fm)
           [] OTHER ->
                 [store |-> st, resp |-> "nil", err |-> <<"not Implemented storing: ">>]

StoreFaults == {"ok", "copyErr", "closeErr"}
MetaFaults == {"ok", "updErr"}

(***************************************************************************)
(* State                                                                   *)
(***************************************************************************)
VARIABLES
    site,       \* the remote namespace of this execution (input)
    store,      \* the bucket: key -> object
    run,        \* number of the current process run
    faults,     \* environment faults injected in this run
    w,          \* the ftp Walker: stack, cur, descend
    wpc,        \* ftpWalk: "next" | "send" | "done"
    pending,    \* the evalFile ftpWalk is sending
    chClosed,   \* close(c.ch) has happened
    chBuf,      \* the evalFiles sent on c.ch and not yet received
    epc,        \* readChannel/main: "recv" | "cloud" | "ftp" | "upload"
                \*   | "returned" | "reported" | "fatal"
    ef,         \* the evalFile being reconciled
    csSum,      \* destination fingerprint of ef
    fSum,       \* source fingerprint of ef
    req,        \* the FileRequest built for ef
    errs,       \* retrieval failures counted by readChannel
    metrics,    \* c.metrics
    hist,       \* this run's observable history (log lines, calls made)
    prev,       \* summary of the previous run
    call,       \* the rpc being served (service specification)
    calls       \* the rpcs being served at once (concurrent service)

vars == <<site, store, run, faults, w, wpc, pending, chClosed, chBuf, epc, ef,
          csSum, fSum, req, errs, metrics, hist, prev, call, calls>>

(***************************************************************************)
(* Initial state: the client as new() builds it, before go c.ftpWalk(dir)  *)
(***************************************************************************)
rootDir == slashStr

evalFile(name) == [nil |-> FALSE, name |-> name]
NilFile == [nil |-> TRUE, name |-> <<>>]
NoReq == [Filename |-> <<>>, Content |-> <<>>, Md5Sum |-> <<>>, Project |-> "UNKNOWN"]

Item(path, entry) == [path |-> path, entry |-> entry, err |-> NoErr]

\* c.fc.Walk(dir): nothing listed yet, cur is the root, descend is set.
Walk(dir) ==
    [stack |-> <<>>, cur |-> Item(dir, Entry(<<>>, EntryTypeFolder)), descend |-> TRUE]

NewMetrics == [sync |-> 0, skip |-> 0, error |-> 0]

\* An rpc seen from both ends: what the service returned (served is FALSE
\* when it never ran) and the error the caller got.
NoRpc == [served |-> FALSE, srvResp |-> "nil", srvErr |-> NoErr, err |-> NoErr]

NewHist ==
    [visited |-> {},     \* paths logged "Eval Path"
     sent |-> <<>>,      \* names handed over the channel, in order
     reqs |-> <<>>,      \* FileRequests issued, in order
     nQuery |-> 0,       \* getMD5cloud calls
     nRetr |-> 0,        \* getMD5ftp calls
     retrErrs |-> 0,     \* getMD5ftp calls that returned an error
     cloudErr |-> NoErr, \* what the last getMD5cloud call returned as error
     rpc |-> NoRpc,      \* how the last FileUpload rpc went
     fatalBy |-> "none"] \* which Fatalf ended the process

\* ended: how the previous run ended; clean: it counted no failure and every
\* file it received was synced or skipped.
\* walked: its walk reached the end of the site without error.
NoPrev == [ended |-> "none", clean |-> FALSE, walked |-> FALSE]

\* An rpc of the service: where FileUpload stands, its request, what it
\* returns, the bucket as the call found it, the writes and metadata
\* updates it has started, and whether the store committed its object
\* (wrote) and its metadata (tagged).
IdleCall == [pc |-> "idle", req |-> NoReq, resp |-> "nil", err |-> NoErr,
             before |-> <<>>, nWrite |-> 0, nUpdate |-> 0,
             wrote |-> FALSE, tagged |-> FALSE]

\* The rpcs of the concurrent service, none of them begun.
IdleCalls == [i \in 1..MaxCalls |-> IdleCall]

\* Keys of the objects the eligible files of a site map to.
DeepK0 == updatesStr \o <<".","0">>
DeepK1 == <<"a","/">> \o updatesStr \o <<".","1">>
DeepK2 == <<"a","/">> \o ribsStr \o <<"/">> \o updatesStr \o <<".","2">>
DeepKe == updatesStr \o <<".","e">>

EmptyStore == [k \in {} |-> Object(<<>>, NoMeta)]

\* A bucket holding, under each key, what the site serves for it.
MirrorOf(s, keys) == [k \in keys |-> Object(ftpContent(s, k), "ROUTEVIEWS")]

WideKeys == {WideName(i) : i \in 1..WideCount}

\* The buckets a run may find: empty, in sync, partly stale or partly missing.
InitStores(s) ==
    IF s = "deep"
    THEN { EmptyStore,
           MirrorOf(s, {DeepK0, DeepK1, DeepK2, DeepKe}),
           MirrorOf(s, {DeepK0, DeepK1, DeepK2}),
           Put(MirrorOf(s, {DeepK0}), DeepK1, Object(<<9>>, "ROUTEVIEWS")) }
    ELSE { MirrorOf(s, WideKeys),
           MirrorOf(s, WideKeys \ {WideName(WideCount)}) }

PipelineInit ==
    /\ run = 1
    /\ faults = 0
    /\ w = Walk(rootDir)
    /\ wpc = "next"
    /\ pending = NilFile
    /\ chClosed = FALSE
    /\ chBuf = <<>>
    /\ epc = "recv"
    /\ ef = NilFile
    /\ csSum = <<>>
    /\ fSum = <<>>
    /\ req = NoReq
    /\ errs = 0
    /\ metrics = NewMetrics
    /\ hist = NewHist
    /\ prev = NoPrev

Init ==
    /\ site \in Sites
    /\ store \in InitStores(site)
    /\ PipelineInit
    /\ call = IdleCall
    /\ calls = IdleCalls

(***************************************************************************)
(* Environment faults                                                      *)
(***************************************************************************)
\* The process is running (no Fatalf yet, main has not finished).
Alive == epc \in {"recv", "cloud", "ftp", "upload", "returned"}

\* n more faults fit this run; the wide site only fails retrievals.
CanFault(n) == n = 0 \/ (site = "deep" /\ faults + n <= MaxFaults)

Cost(f) == IF f = "ok" THEN 0 ELSE 1

(***************************************************************************)
(* The channel c.ch                                                        *)
(***************************************************************************)
\* Mutant: the channel has room for one evalFile more.
sendBlocksBuffered(buf) == Len(buf) >= chanCap + 1

\* A send has to wait for the receiver: the channel holds chanCap
\* evalFiles already.
sendBlocks(buf) == Len(buf) >= chanCap

\* What a receive gets while a sender is blocked with item, and what the
\* channel holds afterwards.
chanHead(buf, item) == IF buf = <<>> THEN item ELSE Head(buf)
chanRest(buf, item) == IF buf = <<>> THEN buf ELSE Append(Tail(buf), item)

(***************************************************************************)
(* Remote tree walker: ftpWalk                                             *)
(***************************************************************************)
\* Walker.Next of the ftp client (github.com/jlaffaye/ftp): list cur when
\* it is a folder and descend is set, push its entries, then pop the last
\* item pushed and set descend again.  Only Walker.SkipDir clears descend,
\* and ftpWalk never calls it.  A failed LIST is kept in cur.err and ends
\* the walk.  lf is what LIST does.
\* Mutant: the entries are pushed last to first, so that the first one
\* listed is the first one visited.
RECURSIVE pushEntriesFromEnd(_, _, _)
pushEntriesFromEnd(stack, dir, entries) ==
    IF entries = <<>> THEN stack
    ELSE LET rest == pushEntriesFromEnd(stack, dir, Tail(entries)) IN
         IF Head(entries).Name \in {<<".">>, <<".", ".">>}
         THEN rest
         ELSE Append(rest, Item(pathJoin(dir, Head(entries).Name), Head(entries)))

RECURSIVE pushEntries(_, _, _)
pushEntries(stack, dir, entries) ==
    IF entries = <<>> THEN stack
    ELSE pushEntries(
            IF Head(entries).Name \in {<<".">>, <<".", ".">>}
            THEN stack
            ELSE Append(stack, Item(pathJoin(dir, Head(entries).Name), Head(entries))),
            dir, Tail(entries))

walkerLists(wk) == wk.descend /\ wk.cur.entry.Type = EntryTypeFolder

walkerNext(wk, lf) ==
    IF walkerLists(wk) /\ lf # "ok"
    THEN [more |-> FALSE, w |-> [wk EXCEPT !.cur.err = <<"LIST failed">>]]
    ELSE LET st == IF walkerLists(wk)
                   THEN pushEntries(wk.stack, wk.cur.path, ftpList(site, wk.cur.path))
                   ELSE wk.stack
         IN IF st = <<>>
            THEN [more |-> FALSE, w |-> [wk EXCEPT !.stack = st]]
            ELSE [more |-> TRUE,
                  w |-> [stack |-> SubSeq(st, 1, Len(st) - 1),
                         cur |-> st[Len(st)],
                         descend |-> TRUE]]

\* Mutant: the entry type is not looked at.
isUpdateEntry(it) == HasPrefix(it.entry.Name, updatesStr)

\* The two tests of the loop body of ftpWalk on the entry just visited.
isRibsDir(it) ==
    it.entry.Type = EntryTypeFolder /\ HasSuffix(it.path, ribsStr)

isUpdateFile(it) ==
    it.entry.Type = EntryTypeFile /\ HasPrefix(it.entry.Name, updatesStr)

\* Mutant: the error of the walk is not looked at.
walkFailedNever(wk) == FALSE

\* w.Err() != nil, the test ftpWalk makes once Next has returned false.
walkFailed(wk) == wk.cur.err # NoErr

\* One turn of the loop of ftpWalk, up to the next point where it blocks
\* (a send on c.ch that has to wait for the receiver) or returns.
ftpWalk ==
    /\ Alive
    /\ wpc = "next"
    /\ \E lf \in {"ok", "listErr"} :
        /\ CanFault(Cost(lf))
        /\ lf = "ok" \/ walkerLists(w)
        /\ LET n == walkerNext(w, lf) IN
            /\ w' = n.w
            /\ faults' = faults + Cost(lf)
            /\ IF n.more
               THEN /\ hist' = [hist EXCEPT !.visited = @ \cup {n.w.cur.path}]
                    /\ chClosed' = chClosed
                    /\ IF isRibsDir(n.w.cur)
                       THEN wpc' = "next" /\ UNCHANGED <<pending, chBuf>>
                       ELSE IF isUpdateFile(n.w.cur)
                       THEN LET e == evalFile(TrimLeft(n.w.cur.path, slashStr)) IN
                            IF sendBlocks(chBuf)
                            THEN wpc' = "send" /\ pending' = e /\ chBuf' = chBuf
                            ELSE /\ wpc' = "next" /\ pending' = pending
                                 /\ chBuf' = Append(chBuf, e)
                       ELSE wpc' = "next" /\ UNCHANGED <<pending, chBuf>>
               ELSE /\ wpc' = "done"
                    /\ chClosed' = walkFailed(n.w)
                    /\ UNCHANGED <<hist, pending, chBuf>>
    /\ UNCHANGED <<site, store, run, epc, ef, csSum, fSum, req, errs, metrics,
                   prev, call, calls>>

(***************************************************************************)
(* Reconciliation engine: readChannel, and the end of main                 *)
(***************************************************************************)
\* getMD5cloud: the hex MD5 of the object's attributes, or a wrapped error.
\* f is what the object store does to the Attrs call.
getMD5cloud(st, path, f) ==
    IF f # "ok"
    THEN [sum |-> <<>>, err |-> <<"failed to get attrs for obj: ">> \o ErrStoreOther]
    ELSE IF path \notin DOMAIN st
    THEN [sum |-> <<>>, err |-> <<"failed to get attrs for obj: ">> \o ErrObjectNotExist]
    ELSE [sum |-> hexEncodeToString(md5Sum(st[path].content)), err |-> NoErr]

\* Mutant: every query error is taken for an absent object.
isAnyErr(err) == err # NoErr

\* The test readChannel applies to a getMD5cloud error.
isNotExist(err) == Contains(err, "object doesn't exist")

\* getMD5ftp: RETR, then ReadAll whose error is dropped: a read that fails
\* after n bytes yields those n bytes and no error.
getMD5ftp(s, path, f) ==
    IF f.kind = "retrErr"
    THEN [sum |-> <<>>, buf |-> <<>>, err |-> <<"failed to RETR the path: ">>]
    ELSE LET full == ftpContent(s, path)
             buf == IF f.kind = "readErr" THEN SubSeq(full, 1, f.n) ELSE full
         IN [sum |-> sprintfHex(md5Sum(buf)), buf |-> buf, err |-> NoErr]

\* What a retrieval of path may do: succeed, fail at RETR, or fail while
\* reading after n bytes, n less than the length of the file.
RetrFaults(s, path) ==
    {[kind |-> "ok", n |-> 0], [kind |-> "retrErr", n |-> 0]}
    \cup {[kind |-> "readErr", n |-> n] : n \in 0..(Len(ftpContent(s, path)) - 1)}

RetrCost(f) == IF f.kind = "readErr" THEN 1 ELSE 0

\* Mutant: the budget is off by one.
underBudgetInclusive(n) == n <= maxFTPErrs

\* The budget test of readChannel on a retrieval error.
underBudget(n) == n < maxFTPErrs

\* Mutant: the comparison is inverted.
sameSumInverted(cs, fs) == cs # fs

\* Mutant: an empty destination fingerprint is taken for a match.
sameSumOrEmpty(cs, fs) == cs = fs \/ cs = <<>>

\* The comparison that decides between skip and upload.
sameSum(cs, fs) == cs = fs

\* Mutant: the request is named by the path as the walker found it.
FileRequestRooted(e, fc, sum) ==
    [Filename |-> slashStr \o e.name, Content |-> fc, Md5Sum |-> sum,
     Project |-> "ROUTEVIEWS"]

\* The request readChannel builds for a file to transfer.
FileRequest(e, fc, sum) ==
    [Filename |-> e.name, Content |-> fc, Md5Sum |-> sum, Project |-> "ROUTEVIEWS"]

\* c.gClient.FileUpload as the caller sees it: t is the fate of the rpc
\* (delivered, lost before the service ran, or its answer lost).  An rpc
\* that ends with an error carries no response.
gClientFileUpload(st, rq, t, fs, fm) ==
    IF t = "lostRequest"
    THEN [store |-> st, resp |-> "nil", err |-> ErrTransport,
          served |-> FALSE, srvResp |-> "nil", srvErr |-> NoErr]
    ELSE LET r == FileUpload(st, rq, fs, fm) IN
         [store |-> r.store,
          resp |-> IF t = "lostResponse" \/ r.err # NoErr THEN "nil" ELSE r.resp,
          err |-> IF t = "lostResponse" THEN ErrTransport ELSE r.err,
          served |-> TRUE, srvResp |-> r.resp, srvErr |-> r.err]

\* Mutant: the response status is tested instead of the error.
uploadFailedByStatus(r) == r.resp = "FAIL"

\* The test readChannel applies to the outcome of the upload.
uploadFailed(r) == r.err # NoErr

\* ef := <-c.ch: the oldest evalFile waiting in the channel, the blocked
\* sender's taking its place; or a rendezvous with the blocked sender; or
\* nil once the channel is closed and empty.
Receive ==
    /\ epc = "recv"
    /\ \/ /\ wpc = "send"
          /\ ef' = chanHead(chBuf, pending)
          /\ chBuf' = chanRest(chBuf, pending)
          /\ wpc' = "next"
          /\ epc' = "cloud"
          /\ hist' = [hist EXCEPT !.sent = Append(@, ef'.name)]
       \/ /\ wpc # "send"
          /\ chBuf # <<>> \/ chClosed
          /\ ef' = IF chBuf # <<>> THEN Head(chBuf) ELSE NilFile
          /\ chBuf' = IF chBuf # <<>> THEN Tail(chBuf) ELSE chBuf
          /\ epc' = IF chBuf # <<>> THEN "cloud" ELSE "returned"
          /\ hist' = IF chBuf # <<>> THEN [hist EXCEPT !.sent = Append(@, ef'.name)]
                     ELSE hist
          /\ wpc' = wpc
    /\ UNCHANGED <<site, store, run, faults, w, pending, chClosed, csSum, fSum,
                   req, errs, metrics, prev, call, calls>>

\* Lines 214-225: the destination fingerprint.
QueryCloud ==
    /\ epc = "cloud"
    /\ \E f \in {"ok", "unavailable"} :
        /\ CanFault(Cost(f))
        /\ faults' = faults + Cost(f)
        /\ LET r == getMD5cloud(store, TrimLeft(ef.name, slashStr), f) IN
            IF r.err # NoErr /\ ~isNotExist(r.err)
            THEN /\ epc' = "fatal"
                 /\ csSum' = csSum
                 /\ hist' = [hist EXCEPT !.nQuery = @ + 1, !.cloudErr = r.err,
                                         !.fatalBy = "cloud"]
            ELSE /\ epc' = "ftp"
                 /\ csSum' = IF r.err # NoErr THEN <<>> ELSE r.sum
                 /\ hist' = [hist EXCEPT !.nQuery = @ + 1, !.cloudErr = r.err]
    /\ UNCHANGED <<site, store, run, w, wpc, pending, chClosed, chBuf, ef, fSum, req,
                   errs, metrics, prev, call, calls>>

\* Lines 227-249: the source content and fingerprint, the error budget,
\* the comparison, and the request when a transfer is needed.
Retrieve ==
    /\ epc = "ftp"
    /\ \E f \in RetrFaults(site, ef.name) :
        /\ CanFault(RetrCost(f))
        /\ faults' = faults + RetrCost(f)
        /\ LET r == getMD5ftp(site, ef.name, f) IN
            /\ fSum' = r.sum
            /\ IF r.err # NoErr
               THEN IF underBudget(errs)
                    THEN /\ errs' = errs + 1
                         /\ epc' = "recv"
                         /\ hist' = [hist EXCEPT !.nRetr = @ + 1, !.retrErrs = @ + 1]
                         /\ UNCHANGED <<metrics, req>>
                    ELSE /\ epc' = "fatal"
                         /\ hist' = [hist EXCEPT !.nRetr = @ + 1, !.retrErrs = @ + 1,
                                                 !.fatalBy = "ftp"]
                         /\ UNCHANGED <<errs, metrics, req>>
               ELSE IF sameSum(csSum, r.sum)
                    THEN /\ metrics' = [metrics EXCEPT !.skip = @ + 1]
                         /\ epc' = "recv"
                         /\ hist' = [hist EXCEPT !.nRetr = @ + 1]
                         /\ UNCHANGED <<errs, req>>
                    ELSE /\ req' = FileRequest(ef, r.buf, r.sum)
                         /\ epc' = "upload"
                         /\ hist' = [hist EXCEPT !.nRetr = @ + 1]
                         /\ UNCHANGED <<errs, metrics>>
    /\ UNCHANGED <<site, store, run, w, wpc, pending, chClosed, chBuf, ef, csSum,
                   prev, call, calls>>

\* Lines 250-257: the rpc, and the counters.
Upload ==
    /\ epc = "upload"
    /\ \E t \in {"ok", "lostRequest", "lostResponse"}, fs \in StoreFaults, fm \in MetaFaults :
        /\ CanFault(Cost(t) + Cost(fs) + Cost(fm))
        /\ faults' = faults + Cost(t) + Cost(fs) + Cost(fm)
        /\ LET r == gClientFileUpload(store, req, t, fs, fm) IN
            /\ store' = r.store
            /\ hist' = [hist EXCEPT !.reqs = Append(@, req),
                                    !.rpc = [served |-> r.served, srvResp |-> r.srvResp,
                                             srvErr |-> r.srvErr, err |-> r.err]]
            /\ IF uploadFailed(r)
               THEN /\ metrics' = [metrics EXCEPT !.error = @ + 1]
                    /\ epc' = "returned"
               ELSE /\ metrics' = [metrics EXCEPT !.sync = @ + 1]
                    /\ epc' = "recv"
    /\ UNCHANGED <<site, run, w, wpc, pending, chClosed, chBuf, ef, csSum, fSum, req,
                   errs, prev, call, calls>>

\* main after readChannel returned: c.close(), then the metrics report.
Report ==
    /\ epc = "returned"
    /\ \E f \in {"ok", "closeErr"} :
        /\ CanFault(Cost(f))
        /\ faults' = faults + Cost(f)
        /\ IF f = "ok"
           THEN epc' = "reported" /\ hist' = hist
           ELSE epc' = "fatal" /\ hist' = [hist EXCEPT !.fatalBy = "close"]
    /\ UNCHANGED <<site, store, run, w, wpc, pending, chClosed, chBuf, ef, csSum, fSum,
                   req, errs, metrics, prev, call, calls>>

\* The walker returned without closing the channel while readChannel waits
\* on it: nothing in the process can run any more.
Hung == epc = "recv" /\ wpc = "done" /\ ~chClosed

\* The operating environment starts the process again once it has ended or
\* hangs; the bucket is what the previous run left.
Restart ==
    /\ run < MaxRuns
    /\ epc \in {"reported", "fatal"} \/ Hung
    /\ run' = run + 1
    /\ prev' = [ended |-> IF Hung THEN "hung" ELSE epc,
                clean |-> /\ errs = 0
                          /\ metrics.error = 0
                          /\ metrics.sync + metrics.skip = Len(hist.sent),
                walked |-> (wpc = "done" /\ w.cur.err = NoErr)]
    /\ faults' = 0
    /\ w' = Walk(rootDir)
    /\ wpc' = "next"
    /\ pending' = NilFile
    /\ chClosed' = FALSE
    /\ chBuf' = <<>>
    /\ epc' = "recv"
    /\ ef' = NilFile
    /\ csSum' = <<>>
    /\ fSum' = <<>>
    /\ req' = NoReq
    /\ errs' = 0
    /\ metrics' = NewMetrics
    /\ hist' = NewHist
    /\ UNCHANGED <<site, store, call, calls>>

\* One run of the client against the site and the bucket.
Next ==
    \/ ftpWalk
    \/ Receive
    \/ QueryCloud
    \/ Retrieve
    \/ Upload
    \/ Report

Spec == Init /\ [][Next]_vars

\* Executions against the small site.
InitRuns == Init /\ site = "deep"

\* One run in which the Go scheduler runs every goroutine that can run
\* and every call the client makes returns.
SpecFair ==
    /\ InitRuns /\ [][Next]_vars
    /\ WF_vars(ftpWalk)
    /\ WF_vars(Receive)
    /\ WF_vars(QueryCloud)
    /\ WF_vars(Retrieve)
    /\ WF_vars(Upload)
    /\ WF_vars(Report)

\* Successive runs against the small site.
NextRuns ==
    \/ ftpWalk
    \/ Receive
    \/ QueryCloud
    \/ Retrieve
    \/ Upload
    \/ Report
    \/ Restart

SpecRuns == InitRuns /\ [][NextRuns]_vars

(***************************************************************************)
(* The upload acceptance service on its own: any caller, any request       *)
(***************************************************************************)
SrvKey == DeepK1

\* Requests a caller may send: well-formed ones, and ones with a missing
\* field, a digest of other content, or no digest.
SrvRequests ==
    [Filename : {<<>>, SrvKey},
     Content : {<<>>, <<3>>, <<4>>},
     Md5Sum : {<<>>, hexEncodeToString(md5Sum(<<3>>)), hexEncodeToString(md5Sum(<<4>>)),
               hexEncodeToString(md5Sum(<<>>))},
     Project : Projects]

InitSrv ==
    /\ site = "deep"
    /\ store \in {EmptyStore, MirrorOf("deep", {SrvKey}),
                  Put(EmptyStore, SrvKey, Object(<<9>>, "RPKI_RARC"))}
    /\ PipelineInit
    /\ call = IdleCall
    /\ calls = IdleCalls

pipelineVars == <<site, run, faults, w, wpc, pending, chClosed, chBuf, epc, ef,
                  csSum, fSum, req, errs, metrics, hist, prev>>

Returned(c, resp, err) == [c EXCEPT !.pc = "done", !.resp = resp, !.err = err]

\* FileUpload lines 116-145 on request rq with the bucket st: the request
\* is read, validated and dispatched.
callReceive(st, rq) ==
    LET c == [IdleCall EXCEPT !.req = rq, !.before = st] IN
    IF baseRequirements(rq) # NoErr
    THEN Returned(c, "nil", baseRequirements(rq))
    ELSE IF checksumCheck(rq) # NoErr
    THEN Returned(c, "nil", checksumCheck(rq))
    ELSE IF storesProject(rq.Project)
    THEN [c EXCEPT !.pc = "store"]
    ELSE Returned(c, "nil", <<"not Implemented storing: ">>)

\* handleDataFile lines 92-95 of call c: the object write.
callFileStore(c, st, fs) ==
    LET r == fileStore(st, c.req.Filename, c.req.Content, fs)
        d == [c EXCEPT !.nWrite = @ + 1, !.wrote = (fs = "ok")]
    IN [store |-> r.store,
        call |-> IF r.err # NoErr THEN Returned(d, "FAIL", r.err)
                 ELSE [d EXCEPT !.pc = "meta"]]

\* handleDataFile lines 96-103 of call c: the metadata update and the
\* answer.
callSetMeta(c, st, fm) ==
    LET r == setProjectMeta(st, c.req.Filename, c.req.Project, fm)
        d == [c EXCEPT !.nUpdate = @ + 1, !.tagged = (r.err = NoErr)]
    IN [store |-> r.store,
        call |-> IF r.err # NoErr THEN Returned(d, "FAIL", r.err)
                 ELSE Returned(d, "SUCCESS", NoErr)]

SrvReceive ==
    /\ call.pc = "idle"
    /\ \E rq \in SrvRequests : call' = callReceive(store, rq)
    /\ UNCHANGED <<store, pipelineVars, calls>>

SrvFileStore ==
    /\ call.pc = "store"
    /\ \E fs \in StoreFaults :
        LET r == callFileStore(call, store, fs)
        IN store' = r.store /\ call' = r.call
    /\ UNCHANGED <<pipelineVars, calls>>

SrvSetMeta ==
    /\ call.pc = "meta"
    /\ \E fm \in MetaFaults :
        LET r == callSetMeta(call, store, fm)
        IN store' = r.store /\ call' = r.call
    /\ UNCHANGED <<pipelineVars, calls>>

\* The rpc has returned; the handler keeps nothing.
SrvReturn ==
    /\ call.pc = "done"
    /\ call' = IdleCall
    /\ UNCHANGED <<store, pipelineVars, calls>>

NextSrv ==
    \/ SrvReceive
    \/ SrvFileStore
    \/ SrvSetMeta
    \/ SrvReturn

SpecSrv == InitSrv /\ [][NextSrv]_vars

(***************************************************************************)
(* The service serving several rpcs at once: grpc runs every FileUpload    *)
(* in a goroutine of its own; the store takes each write and each          *)
(* metadata update as a whole, the last one winning                        *)
(***************************************************************************)
\* The requests that get as far as handleDataFile, all for the same key.
ConcRequests ==
    { rq \in SrvRequests : /\ baseRequirements(rq) = NoErr
                           /\ checksumCheck(rq) = NoErr
                           /\ storesProject(rq.Project) }

InitConc ==
    /\ site = "deep"
    /\ store \in {EmptyStore, Put(EmptyStore, SrvKey, Object(<<9>>, "RPKI_RARC"))}
    /\ PipelineInit
    /\ call = IdleCall
    /\ calls = IdleCalls

ConcReceive ==
    \E i \in 1..MaxCalls :
        /\ calls[i].pc = "idle"
        /\ \E rq \in ConcRequests :
            calls' = [calls EXCEPT ![i] = callReceive(store, rq)]
        /\ UNCHANGED <<store, pipelineVars, call>>

ConcFileStore ==
    \E i \in 1..MaxCalls :
        /\ calls[i].pc = "store"
        /\ \E fs \in StoreFaults :
            LET r == callFileStore(calls[i], store, fs)
            IN store' = r.store /\ calls' = [calls EXCEPT ![i] = r.call]
        /\ UNCHANGED <<pipelineVars, call>>

ConcSetMeta ==
    \E i \in 1..MaxCalls :
        /\ calls[i].pc = "meta"
        /\ \E fm \in MetaFaults :
            LET r == callSetMeta(calls[i], store, fm)
            IN store' = r.store /\ calls' = [calls EXCEPT ![i] = r.call]
        /\ UNCHANGED <<pipelineVars, call>>

\* Each of the MaxCalls rpcs is served once.
NextConc ==
    \/ ConcReceive
    \/ ConcFileStore
    \/ ConcSetMeta

SpecConc == InitConc /\ [][NextConc]_vars

(***************************************************************************)
(* Properties                                                              *)
(***************************************************************************)
\* Every entry of a site, found by listing every directory from dir down.
RECURSIVE AllUnder(_, _)
AllUnder(s, dir) ==
    LET L == ftpList(s, dir) IN
    UNION { {Item(pathJoin(dir, L[i].Name), L[i])}
            \cup (IF L[i].Type = EntryTypeFolder
                  THEN AllUnder(s, pathJoin(dir, L[i].Name))
                  ELSE {})
          : i \in 1..Len(L) }

DeepEntries == AllUnder("deep", rootDir)
WideEntries == AllUnder("wide", rootDir)
SiteEntries == IF site = "deep" THEN DeepEntries ELSE WideEntries

\* The descriptor names of the regular files named updates...
EligibleNames ==
    { TrimLeft(it.path, slashStr) :
        it \in { x \in SiteEntries : /\ x.entry.Type = EntryTypeFile
                                     /\ HasPrefix(x.entry.Name, updatesStr) } }

Range(s) == { s[i] : i \in 1..Len(s) }

\* path lies beneath a directory whose name ends with RIBS.
UnderRibs(path) ==
    \E i \in 2..Len(path) :
        path[i] = "/" /\ HasSuffix(SubSeq(path, 1, i - 1), ribsStr)

WalkComplete == wpc = "done" /\ w.cur.err = NoErr

\* C1. Idempotence: after a first run that went through the whole site and
\* synced or skipped every file it received without any failure, a second
\* run in which nothing fails issues no FileRequest, syncs nothing and
\* skips every file it has received.
C1_SecondRunSkipsAll ==
    (/\ run = 2
     /\ prev.clean /\ prev.walked /\ prev.ended \in {"hung", "reported"}
     /\ faults = 0 /\ hist.retrErrs = 0)
    => /\ metrics.sync = 0
       /\ hist.reqs = <<>>
       /\ (epc = "recv" => metrics.skip = Len(hist.sent))

\* C2. Integrity enforcement: a call whose request carries a digest other
\* than the fingerprint of its content has returned a failure, and has
\* started no object write and no metadata update: the bucket is as the
\* call found it, whatever the project.
DigestMismatch(rq) == hexEncodeToString(md5Sum(rq.Content)) # rq.Md5Sum

C2_IntegrityEnforced ==
    (call.pc # "idle" /\ DigestMismatch(call.req))
    => /\ call.pc = "done"
       /\ call.err # NoErr
       /\ call.resp # "SUCCESS"
       /\ call.nWrite = 0 /\ call.nUpdate = 0
       /\ store = call.before

\* a well-formed ROUTEVIEWS request with a wrong digest has been rejected
C2_Witness ==
    /\ call.pc = "done"
    /\ DigestMismatch(call.req)
    /\ baseRequirements(call.req) = NoErr
    /\ call.req.Project = "ROUTEVIEWS"
    /\ call.req.Md5Sum = hexEncodeToString(md5Sum(<<4>>))
    /\ SrvKey \in DOMAIN store

\* C3. Transfer only on mismatch: a retrieval that succeeds leads to an
\* upload only if the two fingerprints differ; if they are equal, skip goes
\* up by one, nothing else is counted, no request is built or issued and
\* the engine is back at the receive.  A request about to be issued always
\* carries a source fingerprint other than the destination's.
C3_TransferOnlyOnMismatch ==
    [][ /\ (epc = "ftp" /\ epc' # "ftp" /\ hist'.retrErrs = hist.retrErrs)
           => IF csSum = fSum'
              THEN /\ metrics' = [metrics EXCEPT !.skip = @ + 1]
                   /\ epc' = "recv"
                   /\ req' = req /\ hist'.reqs = hist.reqs /\ store' = store
              ELSE /\ epc' = "upload" /\ metrics' = metrics
                   /\ req'.Md5Sum = fSum'
        /\ epc' = "upload" => csSum' # req'.Md5Sum
        /\ Len(hist'.reqs) > Len(hist.reqs) => epc = "upload" /\ csSum # req.Md5Sum
      ]_vars

\* the stored file of the scenario: one file received, skipped, none synced
C3_Witness ==
    /\ site = "deep"
    /\ hist.sent = <<DeepK0>>
    /\ epc = "recv"
    /\ metrics = [sync |-> 0, skip |-> 1, error |-> 0]
    /\ hist.reqs = <<>>
    /\ csSum = hexEncodeToString(md5Sum(<<1, 2>>))

\* C4 as stated: once the query has reported the object absent, the
\* reconciliation of that descriptor goes on to the upload and skip is not
\* counted.
C4_AbsentAlwaysTransfers ==
    [][ (epc = "ftp" /\ epc' # "ftp" /\ hist.cloudErr # NoErr)
        => epc' = "upload" /\ metrics'.skip = metrics.skip ]_vars

\* C4 amended: once the query has reported the object absent, skip is
\* never counted for that descriptor, and whenever its retrieval returns no
\* error the request for it is built and then issued.
C4_AbsentTransfersIfRetrieved ==
    [][ /\ (epc = "ftp" /\ epc' # "ftp" /\ hist.cloudErr # NoErr)
           => /\ metrics'.skip = metrics.skip
              /\ hist'.retrErrs = hist.retrErrs
                    => epc' = "upload" /\ req'.Filename = ef.name
        /\ (epc = "upload" /\ epc' # "upload") => hist'.reqs = Append(hist.reqs, req)
      ]_vars

\* an absent object's file has been retrieved and its request issued
C4_Witness ==
    /\ hist.cloudErr # NoErr
    /\ hist.fatalBy = "none"
    /\ epc = "recv"
    /\ hist.reqs = <<FileRequest(ef, <<1, 2>>, sprintfHex(md5Sum(<<1, 2>>)))>>
    /\ metrics.sync = 1

\* C5. Termination: in every fair run the process ends (exit report or a
\* fatal exit) or an upload fails.
C5_LoopEnds == <>(epc \in {"reported", "fatal"} \/ metrics.error > 0)

\* C5, the enabling condition: once the walker has returned, the channel
\* is closed, so that the receive of readChannel cannot block for ever.
C5_ClosedWhenWalkerReturns == wpc = "done" => chClosed

\* C6. Subtree exclusion: no path the walker evaluates, and no descriptor
\* it hands over, lies beneath a directory whose name ends with RIBS.
C6_RibsNeverTraversed ==
    /\ \A p \in hist.visited : ~UnderRibs(p)
    /\ \A n \in Range(hist.sent) : ~UnderRibs(slashStr \o n)
    /\ wpc = "send" => ~UnderRibs(slashStr \o pending.name)

\* C7. Emission filter: every descriptor handed over names a regular file
\* of the site whose name begins with updates, none twice; once the walk
\* has reached its end without error every such file has been handed over;
\* and the channel is closed only by a failed listing.
C7_EmissionFilter ==
    /\ Range(hist.sent) \subseteq EligibleNames
    /\ Cardinality(Range(hist.sent)) = Len(hist.sent)
    /\ wpc = "send" => pending.name \in EligibleNames
    /\ WalkComplete => Range(hist.sent) = EligibleNames
    /\ chClosed => w.cur.err # NoErr

\* the deep site walked to its end: the four update files and nothing else
C7_Witness ==
    /\ site = "deep"
    /\ WalkComplete
    /\ Range(hist.sent) = {DeepK0, DeepK1, DeepK2, DeepKe}
    /\ Cardinality(hist.visited) = Cardinality(DeepEntries)

\* C8. Budget enforcement: errs is the number of retrievals that have
\* failed in the run; a failing retrieval with errs below maxFTPErrs is
\* counted and the engine is back at the receive with no request issued and
\* no outcome counted; with errs at maxFTPErrs it ends the process, after
\* which nothing is attempted.
BudgetCounted ==
    IF hist.fatalBy = "ftp"
    THEN errs = maxFTPErrs /\ hist.retrErrs = maxFTPErrs + 1
    ELSE errs = hist.retrErrs /\ errs <= maxFTPErrs

C8_BudgetEnforced ==
    [][ /\ BudgetCounted'
        /\ errs' >= errs
        /\ (epc = "ftp" /\ hist'.retrErrs # hist.retrErrs)
           => IF errs < maxFTPErrs
              THEN /\ errs' = errs + 1 /\ epc' = "recv"
                   /\ metrics' = metrics /\ hist'.reqs = hist.reqs /\ store' = store
              ELSE /\ epc' = "fatal" /\ hist'.fatalBy = "ftp"
                   /\ metrics' = metrics /\ hist'.reqs = hist.reqs /\ store' = store
        /\ epc # "fatal"
      ]_vars

\* the failure after maxFTPErrs counted ones ended the process, with a file
\* of the directory never received
C8_Witness ==
    /\ hist.fatalBy = "ftp"
    /\ errs = maxFTPErrs
    /\ Len(hist.sent) = maxFTPErrs + 1
    /\ wpc = "send"
    /\ hist.nRetr = maxFTPErrs + 1

\* C9. Stop-the-line: an rpc that the service answered with FAIL, or that
\* ended with any error, adds one to error and nothing to sync or skip and
\* readChannel returns; after it has returned no query, retrieval, upload
\* or receive happens.
RpcFailed(o) == o.srvResp = "FAIL" \/ o.err # NoErr

C9_StopOnUploadFailure ==
    [][ /\ (epc = "upload" /\ epc' # "upload" /\ RpcFailed(hist'.rpc))
           => /\ metrics' = [metrics EXCEPT !.error = @ + 1]
              /\ epc' = "returned"
        /\ epc \in {"returned", "reported", "fatal"}
           => /\ hist'.nQuery = hist.nQuery /\ hist'.nRetr = hist.nRetr
              /\ hist'.reqs = hist.reqs /\ hist'.sent = hist.sent
              /\ store' = store /\ metrics' = metrics
              /\ epc' \in {"returned", "reported", "fatal"}
      ]_vars

\* the service answered FAIL; the run reported with later files unreceived
C9_Witness ==
    /\ hist.rpc.srvResp = "FAIL"
    /\ metrics = [sync |-> 0, skip |-> 0, error |-> 1]
    /\ epc = "reported"
    /\ Len(hist.sent) = 1
    /\ wpc = "send"

\* C10. Fatal destination failure: a query error other than "object
\* doesn't exist" ends the process at once: no counter, request or bucket
\* change, no retrieval, and no step after it; the absent-object error is
\* the one recovered from, with an empty destination fingerprint.
C10_FatalQueryFailure ==
    [][ /\ (epc = "cloud" /\ epc' # "cloud" /\ hist'.cloudErr # NoErr)
           => IF Contains(hist'.cloudErr, "object doesn't exist")
              THEN epc' = "ftp" /\ csSum' = <<>>
              ELSE /\ epc' = "fatal" /\ hist'.fatalBy = "cloud"
                   /\ hist'.nRetr = hist.nRetr /\ hist'.reqs = hist.reqs
                   /\ metrics' = metrics /\ errs' = errs /\ store' = store
        /\ epc # "fatal"
      ]_vars

\* the query of the second file failed: one retrieval made, one file
\* waiting at the send
C10_Witness ==
    /\ hist.fatalBy = "cloud"
    /\ hist.cloudErr = <<"failed to get attrs for obj: ">> \o ErrStoreOther
    /\ Len(hist.sent) = 2
    /\ hist.nRetr = 1
    /\ wpc = "send"

\* C11. Malformed-request rejection: a call whose request has empty content,
\* project UNKNOWN or an empty filename has returned an error with no
\* response, and has started no object write and no metadata update: the
\* bucket is as the call found it, whether or not the digest matches.
Malformed(rq) == rq.Content = <<>> \/ rq.Project = "UNKNOWN" \/ rq.Filename = <<>>

C11_MalformedRejected ==
    (call.pc # "idle" /\ Malformed(call.req))
    => /\ call.pc = "done"
       /\ call.err # NoErr
       /\ call.resp = "nil"
       /\ call.nWrite = 0 /\ call.nUpdate = 0
       /\ store = call.before

\* a ROUTEVIEWS request with content, the digest of that content and no
\* filename has been rejected
C11_Witness ==
    /\ call.pc = "done"
    /\ call.req.Filename = <<>>
    /\ call.req.Content = <<3>>
    /\ call.req.Md5Sum = hexEncodeToString(md5Sum(<<3>>))
    /\ call.req.Project = "ROUTEVIEWS"
    /\ call.err = <<"base requirements for FileRequest unmet">>
    /\ call.nWrite = 0

\* C12. Two-step commit: a call that passed validation for ROUTEVIEWS or
\* RPKI_RARC starts one object write and then at most one metadata update;
\* it goes on to the metadata only after the store committed the object;
\* once it has returned, the response is SUCCESS exactly when the store
\* committed both the object and the metadata, and anything else is FAIL
\* with an error, with no metadata update after a write that failed.
Storable(rq) ==
    /\ ~Malformed(rq) /\ ~DigestMismatch(rq)
    /\ rq.Project \in {"ROUTEVIEWS", "RPKI_RARC"}

C12_TwoStepCommit ==
    (call.pc # "idle" /\ Storable(call.req))
    => /\ call.pc = "store" => call.nWrite = 0 /\ call.nUpdate = 0
       /\ call.pc = "meta" => call.nWrite = 1 /\ call.nUpdate = 0 /\ call.wrote
       /\ call.pc = "done"
          => /\ call.nWrite = 1 /\ call.nUpdate <= 1
             /\ call.resp = "SUCCESS" <=> (call.wrote /\ call.tagged)
             /\ call.resp # "SUCCESS" => call.resp = "FAIL" /\ call.err # NoErr
             /\ ~call.wrote => call.nUpdate = 0

\* C13. RIPE_RIS gap: a call whose request passed validation with project
\* RIPE_RIS has returned the "not Implemented storing" error with no
\* response, and has started no object write and no metadata update: the
\* bucket is as the call found it.
C13_RipeRisNotImplemented ==
    (/\ call.pc # "idle"
     /\ ~Malformed(call.req) /\ ~DigestMismatch(call.req)
     /\ call.req.Project = "RIPE_RIS")
    => /\ call.pc = "done"
       /\ call.err = <<"not Implemented storing: ">>
       /\ call.resp = "nil"
       /\ call.nWrite = 0 /\ call.nUpdate = 0
       /\ store = call.before

\* a valid RIPE_RIS request for a key the bucket holds has been refused
C13_Witness ==
    /\ call.pc = "done"
    /\ call.req = [Filename |-> SrvKey, Content |-> <<4>>,
                   Md5Sum |-> hexEncodeToString(md5Sum(<<4>>)),
                   Project |-> "RIPE_RIS"]
    /\ call.err = <<"not Implemented storing: ">>
    /\ store = Put(EmptyStore, SrvKey, Object(<<9>>, "RPKI_RARC"))

\* C14. End-to-end sync of an absent file: after the query found no object
\* and the retrieval returned no error, the request built is named by the
\* key that was queried (the path without its leading separator) and
\* carries the fingerprint just computed over the content it carries; that
\* request is issued once, and it is the only request of the run for that
\* key; whenever the service answered SUCCESS the object under the key has
\* that fingerprint as its digest, and when the answer reached the engine
\* sync goes up by one and nothing else is counted.
RequestsFor(reqs, key) == { i \in 1..Len(reqs) : reqs[i].Filename = key }

C14_AbsentFileSynced ==
    [][ /\ (/\ epc = "ftp" /\ epc' # "ftp"
            /\ isNotExist(hist.cloudErr)
            /\ hist'.retrErrs = hist.retrErrs)
           => /\ epc' = "upload"
              /\ ef.name \in EligibleNames
              /\ req'.Filename = TrimLeft(ef.name, slashStr)
              /\ req'.Md5Sum = fSum'
              /\ fSum' = hexEncodeToString(md5Sum(req'.Content))
              /\ req'.Project = "ROUTEVIEWS"
              /\ RequestsFor(hist'.reqs, req'.Filename) = {}
        /\ (epc = "upload" /\ epc' # "upload" /\ isNotExist(hist.cloudErr))
           => /\ hist'.reqs = Append(hist.reqs, req)
              /\ Cardinality(RequestsFor(hist'.reqs, req.Filename)) = 1
              /\ hist'.rpc.srvResp = "SUCCESS"
                    => /\ req.Filename \in DOMAIN store'
                       /\ hexEncodeToString(md5Sum(store'[req.Filename].content)) = fSum
                       /\ hist'.rpc.err = NoErr
                             => /\ metrics' = [metrics EXCEPT !.sync = @ + 1]
                                /\ epc' = "recv"
      ]_vars

\* a/updates.1, absent from the bucket, is the second file synced
C14_Witness ==
    /\ site = "deep"
    /\ hist.sent = <<DeepK0, DeepK1>>
    /\ isNotExist(hist.cloudErr)
    /\ hist.rpc.srvResp = "SUCCESS" /\ hist.rpc.err = NoErr
    /\ Len(hist.reqs) = 2
    /\ hist.reqs[2].Md5Sum = sprintfHex(md5Sum(<<3>>))
    /\ metrics.sync = 2
    /\ DeepK1 \in DOMAIN store
    /\ store[DeepK1] = Object(<<3>>, "ROUTEVIEWS")
    /\ epc = "recv"

\* The entries of a site in the order a depth-first walk that takes the
\* entries of each directory last to first comes to them: entries i down
\* to 1 of dir, each followed by what lies beneath it.
RECURSIVE DiscoveryOrder(_, _, _)
DiscoveryOrder(s, dir, i) ==
    IF i = 0 THEN <<>>
    ELSE LET e == ftpList(s, dir)[i]
             p == pathJoin(dir, e.Name)
         IN <<Item(p, e)>>
            \o (IF e.Type = EntryTypeFolder
                THEN DiscoveryOrder(s, p, Len(ftpList(s, p)))
                ELSE <<>>)
            \o DiscoveryOrder(s, dir, i - 1)

IsEligible(it) ==
    it.entry.Type = EntryTypeFile /\ HasPrefix(it.entry.Name, updatesStr)

EligibleOrderOf(s) ==
    LET sel == SelectSeq(DiscoveryOrder(s, rootDir, Len(ftpList(s, rootDir))), IsEligible)
    IN [i \in 1..Len(sel) |-> TrimLeft(sel[i].path, slashStr)]

DeepOrder == EligibleOrderOf("deep")
WideOrder == EligibleOrderOf("wide")
EligibleOrder == IF site = "deep" THEN DeepOrder ELSE WideOrder

IsPrefix(a, b) == Len(a) <= Len(b) /\ SubSeq(b, 1, Len(a)) = a

\* Descriptors whose reconciliation has reached its outcome.
Outcomes == metrics.sync + metrics.skip + metrics.error + hist.retrErrs

\* C15. Ordering: the descriptors received so far, followed by the one the
\* walker is sending, are a prefix of the eligible files in discovery
\* order, and all of them once the walk has reached its end; every
\* descriptor received before the one in hand has its outcome, the one in
\* hand is the last received; and a descriptor is received only by an
\* engine at the receive, as the next element of the sequence.
OrderKept ==
    /\ IsPrefix(hist.sent, EligibleOrder)
    /\ wpc = "send" => Append(hist.sent, pending.name) = SubSeq(EligibleOrder, 1, Len(hist.sent) + 1)
    /\ (WalkComplete /\ epc = "recv") => hist.sent = EligibleOrder
    /\ epc = "recv" => Outcomes = Len(hist.sent) /\ hist.nQuery = Len(hist.sent)
    /\ epc \in {"cloud", "ftp", "upload"}
       => /\ hist.sent # <<>>
          /\ ef.name = hist.sent[Len(hist.sent)]
          /\ Outcomes = Len(hist.sent) - 1

C15_Ordering ==
    [][ /\ OrderKept'
        /\ hist'.sent # hist.sent
           => /\ epc = "recv" /\ epc' = "cloud"
              /\ hist'.sent = Append(hist.sent, ef'.name)
              /\ Len(hist'.sent) <= Len(EligibleOrder)
              /\ ef'.name = EligibleOrder[Len(hist'.sent)]
      ]_vars

\* the four files of the deep site, each found in sync, in walk order
C15_Witness ==
    /\ site = "deep"
    /\ hist.sent = <<DeepK0, DeepK1, DeepK2, DeepKe>>
    /\ metrics.skip = 4
    /\ epc = "recv"
    /\ WalkComplete

\* The descriptors of the eligible files the walker has come to.
Emitted ==
    { TrimLeft(it.path, slashStr) :
        it \in { x \in SiteEntries : x.path \in hist.visited /\ IsEligible(x) } }

\* The descriptor the walker is blocked sending, if any.
Blocked == IF wpc = "send" THEN {pending.name} ELSE {}

\* C16. Rendezvous backpressure: the channel never holds a descriptor;
\* the descriptors the walker has finished handing off (those it has come
\* to, less the one it is blocked sending) are exactly those the engine has
\* received, as many on one side as on the other; a walker at a send does
\* not move until the engine, at its receive, takes that very descriptor;
\* and the engine leaves its receive only with the descriptor of a blocked
\* sender or, the channel closed, with nil.
NothingBuffered ==
    /\ chBuf = <<>>
    /\ Emitted \ Blocked = Range(hist.sent)
    /\ Cardinality(Emitted) - Cardinality(Blocked) = Len(hist.sent)
    /\ wpc = "send" => pending.name \notin Range(hist.sent)

C16_RendezvousBackpressure ==
    [][ /\ NothingBuffered'
        /\ wpc = "send"
           => /\ w' = w /\ pending' = pending /\ hist'.visited = hist.visited
              /\ \/ wpc' = "send" /\ hist'.sent = hist.sent
                 \/ /\ wpc' = "next"
                    /\ epc = "recv" /\ epc' = "cloud"
                    /\ ef' = pending
                    /\ hist'.sent = Append(hist.sent, pending.name)
        /\ (epc = "recv" /\ epc' # "recv")
           => \/ wpc = "send" /\ wpc' = "next" /\ ef' = pending /\ epc' = "cloud"
              \/ /\ chClosed /\ wpc = "done"
                 /\ ef' = NilFile /\ epc' = "returned"
                 /\ hist'.sent = hist.sent
      ]_vars

\* the walker is blocked sending the second file, having gone no further,
\* while the engine uploads the first
C16_Witness ==
    /\ site = "deep"
    /\ wpc = "send"
    /\ pending.name = DeepK1
    /\ epc = "upload"
    /\ hist.sent = <<DeepK0>>
    /\ Emitted = {DeepK0, DeepK1}
    /\ w.stack # <<>>

\* C17. Walker fail-fast: a listing error ends the walk in the step that
\* meets it, with the channel closed in that same step and no descriptor
\* left at a send; the channel is closed by no other step and never
\* reopened, and a walker that has returned does nothing more; once the
\* channel is closed no descriptor is handed over and the walk does not
\* move.  The descriptors received before the closure are still
\* reconciled: an engine that was handed nil has an outcome for every
\* descriptor it received, and after a closure the engine always comes to
\* return (or the process to exit).
WalkerFailedClosed ==
    /\ w.cur.err # NoErr => wpc = "done" /\ chClosed /\ chBuf = <<>>
    /\ chClosed => wpc = "done" /\ w.cur.err # NoErr
    /\ (chClosed /\ ef = NilFile /\ epc \in {"returned", "reported"})
       => Outcomes = Len(hist.sent) /\ hist.nQuery = Len(hist.sent)

C17_WalkerFailFast ==
    /\ [][ /\ WalkerFailedClosed'
           /\ (chClosed' /\ ~chClosed) => wpc = "next" /\ w.cur.err = NoErr
           /\ chClosed => chClosed'
           /\ (chClosed \/ wpc = "done")
              => /\ w' = w /\ wpc' = wpc /\ pending' = pending
                 /\ hist'.sent = hist.sent /\ hist'.visited = hist.visited
         ]_vars
    /\ (chClosed ~> epc \in {"returned", "reported", "fatal"})

\* the listing of a/RIBS failed after two files were handed over: both
\* were reconciled, the rest of the site was never visited
C17_Witness ==
    /\ chClosed
    /\ w.cur.path = <<"/", "a", "/">> \o ribsStr
    /\ w.stack # <<>>
    /\ hist.sent = <<DeepK0, DeepK1>>
    /\ metrics.sync + metrics.skip = 2
    /\ ef = NilFile
    /\ epc = "reported"

\* C18. Full-content retrieval: a retrieval either is counted as failed or
\* yields the fingerprint of the whole file, and a request built after it
\* carries the whole file and that fingerprint; a retrieval whose read
\* failed after the transfer was opened is counted as failed, with no
\* skip counted and no request built.
FullContent == ftpContent(site, ef.name)

C18_FullContentRetrieval ==
    [][ (epc = "ftp" /\ epc' # "ftp")
        => /\ hist'.retrErrs = hist.retrErrs
              => /\ fSum' = sprintfHex(md5Sum(FullContent))
                 /\ epc' = "upload"
                    => req'.Content = FullContent /\ req'.Md5Sum = fSum'
           /\ faults' > faults
              => /\ hist'.retrErrs = hist.retrErrs + 1
                 /\ metrics' = metrics /\ req' = req
                 /\ epc' \in {"recv", "fatal"}
      ]_vars

\* C19. No compensating rollback: a call for ROUTEVIEWS or RPKI_RARC whose
\* object the store committed and whose metadata update then failed has
\* returned FAIL with an error, and the bucket holds under the key the
\* bytes of the request with no project metadata, whatever it held before.
C19_NoRollback ==
    (/\ call.pc = "done" /\ Storable(call.req)
     /\ call.wrote /\ call.nUpdate = 1 /\ ~call.tagged)
    => /\ call.resp = "FAIL"
       /\ call.err # NoErr
       /\ call.req.Filename \in DOMAIN store
       /\ store[call.req.Filename] = Object(call.req.Content, NoMeta)
       /\ store[call.req.Filename].meta # call.req.Project

\* a failed call has replaced the tagged object the bucket held
C19_Witness ==
    /\ call.pc = "done"
    /\ call.resp = "FAIL"
    /\ call.wrote /\ ~call.tagged
    /\ call.req.Project = "ROUTEVIEWS"
    /\ call.before = Put(EmptyStore, SrvKey, Object(<<9>>, "RPKI_RARC"))
    /\ store = Put(EmptyStore, SrvKey, Object(<<4>>, NoMeta))

\* C20. Last writer wins: once every rpc for the key has returned, all of
\* them with SUCCESS (taken here with every object write committed by the
\* store, so that the close-time failure of C12 plays no part), the object
\* under the key has the content and the project of one and the same
\* request.
AllSucceeded ==
    \A i \in 1..MaxCalls :
        /\ calls[i].pc = "done"
        /\ calls[i].resp = "SUCCESS"
        /\ calls[i].wrote /\ calls[i].tagged

C20_ContentAndTagOfOneRequest ==
    AllSucceeded
    => /\ SrvKey \in DOMAIN store
       /\ \E i \in 1..MaxCalls :
            store[SrvKey] = Object(calls[i].req.Content, calls[i].req.Project)

=============================================================================
